---- MODULE Spec2Model ----
(***************************************************************************)
(* Model of the gocsp package: the OCSP BasicResponse held by a caller,    *)
(* the in-place operations on it (SetNonce, ClearStatus, the status        *)
(* normalization run by MarshalBasicResponse), and the DER codec           *)
(* (encoding/asn1 Marshal and Unmarshal as driven by the struct tags).     *)
(*                                                                         *)
(* Byte strings are sequences of naturals below 256.  A Go []byte that is  *)
(* nil is the empty sequence.  A time.Time is [sec, nsec]; the zero        *)
(* time.Time is sec = 0, nsec = 0.  A *big.Int is a natural, or NilSerial  *)
(* for the nil pointer.  An object identifier under id-pkix-ocsp           *)
(* (1.3.6.1.5.5.7.48.1) is its last arc.  The fields of BasicResponse      *)
(* other than TBSResponseData.Responses are held fixed at encodable values *)
(* and their bytes are left out of the encoding.                           *)
(***************************************************************************)
EXTENDS Integers, Sequences, FiniteSets, TLC

\* ---------------------------------------------------------------- bounds
MaxResponses == 2
MaxNsec == 1
MaxByte == 1

\* ------------------------------------------------------- program constants
OidOcspNonce == 2
OidOcspBasicResponse == 1
NilSerial == -1

\* ------------------------------------------------------------ data model
ZeroTime == [sec |-> 0, nsec |-> 0]

\* time.Time.IsZero
IsZero(t) == t.sec = 0 /\ t.nsec = 0

\* time.Time.Equal
TimeEqual(t, u) == t.sec = u.sec /\ t.nsec = u.nsec

ZeroRevokedInfo == [RevocationTime |-> ZeroTime, RevocationReason |-> 0]

\* func (ri *RevokedInfo) IsEmpty() bool
IsEmpty(ri) ==
    IF IsZero(ri.RevocationTime) \/ TimeEqual(ri.RevocationTime, ZeroTime)
    THEN TRUE
    ELSE FALSE

\* var s singleResponse  (the zero value of the struct)
ZeroSingleResponse ==
    [CertID |-> [SerialNumber |-> NilSerial],
     Good |-> FALSE,
     Revoked |-> ZeroRevokedInfo,
     Unknown |-> FALSE,
     ThisUpdate |-> ZeroTime,
     NextUpdate |-> ZeroTime,
     SingleExtensions |-> << >>]

\* pkix.Extension{Id: OidOcspNonce, Critical: false, Value: nonce}
NonceExt(nonce) == [Id |-> OidOcspNonce, Critical |-> FALSE, Value |-> nonce]

\* ------------------------------------------------------------ input sets
\* nonce values passed to SetNonce
NonceValues == {<< >>} \cup {<<b>> : b \in 1..MaxByte}

\* bytes appended to an encoding before it is decoded
Suffixes == {<< >>, <<0>>, <<48, 0>>}

\* an extension other than the nonce (id-pkix-ocsp 3), marked critical
OtherExt == [Id |-> 3, Critical |-> TRUE, Value |-> <<3>>]

\* a nonce extension as found in a decoded or constructed response
HeldNonce == <<9>>

ExtLists ==
    {<< >>, <<OtherExt>>, <<NonceExt(HeldNonce)>>, <<OtherExt, NonceExt(HeldNonce)>>}

RevokedInfos ==
    {[RevocationTime |-> t, RevocationReason |-> r] :
        t \in {ZeroTime, [sec |-> 1, nsec |-> 0]}, r \in 0..1}

\* CertID.SerialNumber: the nil pointer or a number
Serials == {NilSerial, 1}

\* the singleResponse values a producer works on
Entries ==
    [CertID : [SerialNumber : Serials],
     Good : BOOLEAN,
     Revoked : RevokedInfos,
     Unknown : BOOLEAN,
     ThisUpdate : {[sec |-> 1, nsec |-> 0]},
     NextUpdate : {[sec |-> 2, nsec |-> 0]},
     SingleExtensions : ExtLists]

\* the singleResponse values encoded and decoded again
CodecEntries ==
    [CertID : [SerialNumber : Serials],
     Good : BOOLEAN,
     Revoked : [RevocationTime : {ZeroTime, [sec |-> 0, nsec |-> 1]}
                                 \cup {[sec |-> 1, nsec |-> n] : n \in 0..MaxNsec},
                RevocationReason : 0..1],
     Unknown : BOOLEAN,
     ThisUpdate : {[sec |-> 1, nsec |-> n] : n \in 0..MaxNsec},
     NextUpdate : {ZeroTime, [sec |-> 2, nsec |-> 0]},
     SingleExtensions : {<< >>, <<OtherExt, NonceExt(HeldNonce)>>}]

\* the entry at the other positions of Responses
PlainEntry ==
    [CertID |-> [SerialNumber |-> 0],
     Good |-> TRUE,
     Revoked |-> ZeroRevokedInfo,
     Unknown |-> FALSE,
     ThisUpdate |-> [sec |-> 3, nsec |-> 0],
     NextUpdate |-> ZeroTime,
     SingleExtensions |-> <<NonceExt(HeldNonce)>>]

\* Responses of up to MaxResponses entries, one of them drawn from S
ResponsesOver(S) ==
    {<< >>} \cup
    UNION {UNION {{[i \in 1..n |-> IF i = k THEN e ELSE PlainEntry] : e \in S}
                  : k \in 1..n} : n \in 1..MaxResponses}

\* the requests a client encodes
Requests ==
    [RequestList : {<<[SerialNumber |-> n]>> : n \in Serials},
     ExtensionList : {<< >>, <<NonceExt(HeldNonce)>>}]

\* ============================================================ DER codec
\* encoding/asn1 as the struct tags of the package drive it.  Tag octets:
\* 48 SEQUENCE, 2 INTEGER, 4 OCTET STRING, 6 OBJECT IDENTIFIER, 1 BOOLEAN,
\* 10 ENUMERATED, 24 GeneralizedTime, 128+n context tag n primitive,
\* 160+n context tag n constructed.

\* F applied to the value of v, with v computed once
Eval(v, F(_)) == CHOOSE r \in {F(x) : x \in {v}} : TRUE

\* DER length octets (short form below 128, long form above)
EncLength(n) ==
    IF n < 128 THEN <<n>>
    ELSE IF n < 256 THEN <<129, n>>
    ELSE <<130, n \div 256, n % 256>>

TLV(tag, body) == Eval(body, LAMBDA b : <<tag>> \o EncLength(Len(b)) \o b)

RECURSIVE ConcatFrom(_, _)
ConcatFrom(ss, i) == IF i > Len(ss) THEN << >> ELSE ss[i] \o ConcatFrom(ss, i + 1)

Concat(ss) == Eval(ss, LAMBDA s : ConcatFrom(s, 1))

\* time.Time `asn1:"generalized"`: the body carries whole seconds only
MarshalTime(t) == TLV(24, <<t.sec>>)

\* certID: SEQUENCE { ..., serialNumber INTEGER }
MarshalCertID(c) == TLV(48, TLV(2, <<c.SerialNumber>>))

\* asn1.Marshal fails on a nil *big.Int
CertIDMarshalable(c) == c.SerialNumber # NilSerial

\* pkix.Extension: SEQUENCE { Id, Critical `optional`, Value }
MarshalExtension(e) ==
    TLV(48, TLV(6, <<e.Id>>)
            \o (IF e.Critical THEN TLV(1, <<255>>) ELSE << >>)
            \o TLV(4, e.Value))

MarshalExtensions(exts) ==
    TLV(48, Concat([i \in 1..Len(exts) |-> MarshalExtension(exts[i])]))

\* RevokedInfo: RevocationTime, RevocationReason `explicit,tag:0,optional`
MarshalRevokedInfoBody(ri) ==
    MarshalTime(ri.RevocationTime)
    \o (IF ri.RevocationReason = 0 THEN << >>
        ELSE TLV(160, TLV(10, <<ri.RevocationReason>>)))

\* mutant: Unknown is given context tag 0, the tag of Good
MarshalSingleResponse_UnknownTag0(sr) ==
    TLV(48,
        MarshalCertID(sr.CertID)
        \o (IF sr.Good THEN TLV(128, << >>) ELSE << >>)
        \o (IF sr.Revoked = ZeroRevokedInfo THEN << >>
            ELSE TLV(161, MarshalRevokedInfoBody(sr.Revoked)))
        \o (IF sr.Unknown THEN TLV(128, << >>) ELSE << >>)
        \o MarshalTime(sr.ThisUpdate)
        \o (IF sr.NextUpdate = ZeroTime THEN << >>
            ELSE TLV(160, MarshalTime(sr.NextUpdate)))
        \o (IF sr.SingleExtensions = << >> THEN << >>
            ELSE TLV(161, MarshalExtensions(sr.SingleExtensions))))

\* singleResponse: an optional field is left out when it equals the zero
\* value of its type
MarshalSingleResponse(sr) ==
    TLV(48,
        MarshalCertID(sr.CertID)
        \o (IF sr.Good THEN TLV(128, << >>) ELSE << >>)
        \o (IF sr.Revoked = ZeroRevokedInfo THEN << >>
            ELSE TLV(161, MarshalRevokedInfoBody(sr.Revoked)))
        \o (IF sr.Unknown THEN TLV(130, << >>) ELSE << >>)
        \o MarshalTime(sr.ThisUpdate)
        \o (IF sr.NextUpdate = ZeroTime THEN << >>
            ELSE TLV(160, MarshalTime(sr.NextUpdate)))
        \o (IF sr.SingleExtensions = << >> THEN << >>
            ELSE TLV(161, MarshalExtensions(sr.SingleExtensions))))

\* asn1.Marshal(*basicResponse): BasicResponse { responseData { Responses } }
AsnMarshalBasic(rs) ==
    IF \E i \in 1..Len(rs) : ~CertIDMarshalable(rs[i].CertID)
    THEN [err |-> "asn1: structure error: empty integer", bytes |-> << >>]
    ELSE [err |-> "",
          bytes |-> TLV(48, TLV(48, TLV(48,
                      Concat([i \in 1..Len(rs) |-> MarshalSingleResponse(rs[i])]))))]

\* the zero value of responseBytes
ZeroResponseBytes == [ResponseType |-> 0, Response |-> << >>]

\* asn1.Marshal of an OcspResponse:
\* SEQUENCE { ResponseStatus ENUMERATED, ResponseBytes `explicit,tag:0,optional` }
AsnMarshalResponse(resp) ==
    [err |-> "",
     bytes |-> TLV(48,
        TLV(10, <<resp.ResponseStatus>>)
        \o (IF resp.ResponseBytes = ZeroResponseBytes THEN << >>
            ELSE TLV(160, TLV(48, TLV(6, <<resp.ResponseBytes.ResponseType>>)
                                  \o TLV(4, resp.ResponseBytes.Response)))))]

\* asn1.Marshal of an OcspRequest:
\* SEQUENCE { tbsRequest { RequestList, ExtensionList `explicit,tag:2,optional` } }
AsnMarshalRequest(req) ==
    IF \E i \in 1..Len(req.RequestList) : ~CertIDMarshalable(req.RequestList[i])
    THEN [err |-> "asn1: structure error: empty integer", bytes |-> << >>]
    ELSE [err |-> "",
          bytes |-> TLV(48, TLV(48,
              TLV(48, Concat([i \in 1..Len(req.RequestList) |->
                                 TLV(48, MarshalCertID(req.RequestList[i]))]))
              \o (IF req.ExtensionList = << >> THEN << >>
                  ELSE TLV(162, MarshalExtensions(req.ExtensionList)))))]

\* ------------------------------------------------------------- decoding
\* A parse result is [ok, val, rest]: whether the bytes matched, the value
\* read so far, and the bytes after it.
ParseFail == [ok |-> FALSE, tag |-> 0, body |-> << >>, rest |-> << >>]

Failed(val) == [ok |-> FALSE, val |-> val, rest |-> << >>]

\* the element's header is h octets long and its content n octets
CutElement(b, h, n) ==
    IF h + n > Len(b) THEN ParseFail
    ELSE [ok |-> TRUE, tag |-> b[1],
          body |-> SubSeq(b, h + 1, h + n),
          rest |-> SubSeq(b, h + n + 1, Len(b))]

\* parseTagAndLength and the slicing of the content: the first element
ParseTL(bytes) ==
    Eval(bytes, LAMBDA b :
        IF Len(b) < 2 THEN ParseFail
        ELSE IF b[2] < 128 THEN CutElement(b, 2, b[2])
        ELSE IF b[2] = 129
             THEN IF Len(b) < 3 \/ b[3] < 128 THEN ParseFail
                  ELSE CutElement(b, 3, b[3])
        ELSE IF b[2] = 130
             THEN IF Len(b) < 4 \/ b[3] = 0 THEN ParseFail
                  ELSE CutElement(b, 4, b[3] * 256 + b[4])
        ELSE ParseFail)

\* an `optional` field: absent at the end of the enclosing content or when
\* the next element carries another tag; a malformed header is an error
ParseOptional(bytes, tag) ==
    Eval(bytes, LAMBDA b :
        IF b = << >> THEN [ok |-> TRUE, present |-> FALSE, body |-> << >>, rest |-> b]
        ELSE Eval(ParseTL(b), LAMBDA t :
            IF ~t.ok THEN [ok |-> FALSE, present |-> FALSE, body |-> << >>, rest |-> << >>]
            ELSE IF t.tag = tag
                 THEN [ok |-> TRUE, present |-> TRUE, body |-> t.body, rest |-> t.rest]
            ELSE [ok |-> TRUE, present |-> FALSE, body |-> << >>, rest |-> b]))

\* a required element with the given tag and a one-octet content
ParseOctet(bytes, tag) ==
    Eval(ParseTL(bytes), LAMBDA t :
        IF t.ok /\ t.tag = tag /\ Len(t.body) = 1
        THEN [ok |-> TRUE, val |-> t.body[1], rest |-> t.rest]
        ELSE Failed(0))

\* a required SEQUENCE: its content in val
ParseSequence(bytes) ==
    Eval(ParseTL(bytes), LAMBDA t :
        IF t.ok /\ t.tag = 48
        THEN [ok |-> TRUE, val |-> t.body, rest |-> t.rest]
        ELSE Failed(<< >>))

\* the next field of a struct: F reads it from the state s left by the
\* fields before it; an error in an earlier field ends the parse
Then(state, F(_)) == Eval(state, LAMBDA s : IF s.ok THEN F(s) ELSE s)

\* time.Time `asn1:"generalized"`
ParseTime(bytes) ==
    Eval(ParseOctet(bytes, 24), LAMBDA t :
        [ok |-> t.ok, val |-> [sec |-> t.val, nsec |-> 0], rest |-> t.rest])

\* certID; bytes after the last field of a SEQUENCE are ignored
ParseCertID(bytes) ==
    Eval(ParseSequence(bytes), LAMBDA t :
        IF ~t.ok THEN Failed([SerialNumber |-> NilSerial])
        ELSE Eval(ParseOctet(t.val, 2), LAMBDA n :
            IF n.ok THEN [ok |-> TRUE, val |-> [SerialNumber |-> n.val], rest |-> t.rest]
            ELSE Failed([SerialNumber |-> NilSerial])))

\* pkix.Extension.Id
FieldId(s) ==
    Eval(ParseOctet(s.rest, 6), LAMBDA id :
        [ok |-> id.ok, val |-> [s.val EXCEPT !.Id = id.val], rest |-> id.rest])

\* pkix.Extension.Critical `asn1:"optional"`
FieldCritical(s) ==
    Eval(ParseOptional(s.rest, 1), LAMBDA cr :
        [ok |-> cr.ok,
         val |-> [s.val EXCEPT !.Critical = (cr.present /\ cr.body # <<0>>)],
         rest |-> cr.rest])

\* pkix.Extension.Value
FieldValue(s) ==
    Eval(ParseTL(s.rest), LAMBDA v :
        [ok |-> v.ok /\ v.tag = 4, val |-> [s.val EXCEPT !.Value = v.body], rest |-> v.rest])

\* pkix.Extension, content octets
ParseExtension(body) ==
    Then(Then(Then([ok |-> TRUE, val |-> NonceExt(<< >>), rest |-> body],
        FieldId), FieldCritical), FieldValue)

\* SEQUENCE OF pkix.Extension, content octets
RECURSIVE ParseExtensionList(_)
ParseExtensionList(bytes) ==
    Eval(bytes, LAMBDA b :
        IF b = << >> THEN [ok |-> TRUE, val |-> << >>, rest |-> << >>]
        ELSE Eval(ParseSequence(b), LAMBDA t :
            IF ~t.ok THEN Failed(<< >>)
            ELSE Eval(ParseExtension(t.val), LAMBDA e :
                IF ~e.ok THEN Failed(<< >>)
                ELSE Eval(ParseExtensionList(t.rest), LAMBDA r :
                    IF r.ok THEN [r EXCEPT !.val = <<e.val>> \o r.val]
                    ELSE Failed(<< >>)))))

\* []pkix.Extension `explicit,tag:n,optional`; tag is the outer tag octet
ParseOptionalExtensions(bytes, tag) ==
    Eval(ParseOptional(bytes, tag), LAMBDA o :
        IF ~o.ok THEN Failed(<< >>)
        ELSE IF ~o.present THEN [ok |-> TRUE, val |-> << >>, rest |-> o.rest]
        ELSE Eval(ParseSequence(o.body), LAMBDA q :
            IF ~q.ok THEN Failed(<< >>)
            ELSE Eval(ParseExtensionList(q.val), LAMBDA l :
                IF l.ok THEN [ok |-> TRUE, val |-> l.val, rest |-> o.rest]
                ELSE Failed(<< >>))))

\* RevokedInfo.RevocationTime
FieldRevocationTime(s) ==
    Eval(ParseTime(s.rest), LAMBDA t :
        [ok |-> t.ok, val |-> [s.val EXCEPT !.RevocationTime = t.val], rest |-> t.rest])

\* RevokedInfo.RevocationReason `asn1:"explicit,tag:0,optional"`
FieldRevocationReason(s) ==
    Eval(ParseOptional(s.rest, 160), LAMBDA o :
        IF ~o.ok \/ ~o.present THEN [ok |-> o.ok, val |-> s.val, rest |-> o.rest]
        ELSE Eval(ParseOctet(o.body, 10), LAMBDA r :
            [ok |-> r.ok, val |-> [s.val EXCEPT !.RevocationReason = r.val],
             rest |-> o.rest]))

\* RevokedInfo, content octets
ParseRevokedInfo(body) ==
    Then(Then([ok |-> TRUE, val |-> ZeroRevokedInfo, rest |-> body],
        FieldRevocationTime), FieldRevocationReason)

\* singleResponse.CertID
FieldCertID(s) ==
    Eval(ParseCertID(s.rest), LAMBDA c :
        [ok |-> c.ok, val |-> [s.val EXCEPT !.CertID = c.val], rest |-> c.rest])

\* singleResponse.Good `asn1:"tag:0,optional"`
FieldGood(s) ==
    Eval(ParseOptional(s.rest, 128), LAMBDA o :
        [ok |-> o.ok, val |-> [s.val EXCEPT !.Good = o.present], rest |-> o.rest])

\* singleResponse.Revoked `asn1:"tag:1,optional"`
FieldRevoked(s) ==
    Eval(ParseOptional(s.rest, 161), LAMBDA o :
        IF ~o.ok \/ ~o.present THEN [ok |-> o.ok, val |-> s.val, rest |-> o.rest]
        ELSE Eval(ParseRevokedInfo(o.body), LAMBDA ri :
            [ok |-> ri.ok, val |-> [s.val EXCEPT !.Revoked = ri.val], rest |-> o.rest]))

\* singleResponse.Unknown `asn1:"tag:2,optional"`
FieldUnknown(s) ==
    Eval(ParseOptional(s.rest, 130), LAMBDA o :
        [ok |-> o.ok, val |-> [s.val EXCEPT !.Unknown = o.present], rest |-> o.rest])

\* singleResponse.ThisUpdate `asn1:"generalized"`
FieldThisUpdate(s) ==
    Eval(ParseTime(s.rest), LAMBDA t :
        [ok |-> t.ok, val |-> [s.val EXCEPT !.ThisUpdate = t.val], rest |-> t.rest])

\* singleResponse.NextUpdate `asn1:"generalized,explicit,tag:0,optional"`
FieldNextUpdate(s) ==
    Eval(ParseOptional(s.rest, 160), LAMBDA o :
        IF ~o.ok \/ ~o.present THEN [ok |-> o.ok, val |-> s.val, rest |-> o.rest]
        ELSE Eval(ParseTime(o.body), LAMBDA t :
            [ok |-> t.ok, val |-> [s.val EXCEPT !.NextUpdate = t.val], rest |-> o.rest]))

\* singleResponse.SingleExtensions `asn1:"explicit,tag:1,optional"`
FieldSingleExtensions(s) ==
    Eval(ParseOptionalExtensions(s.rest, 161), LAMBDA x :
        [ok |-> x.ok, val |-> [s.val EXCEPT !.SingleExtensions = x.val], rest |-> x.rest])

\* singleResponse, content octets: the fields in declaration order
ParseSingleResponse(body) ==
    Then(Then(Then(Then(Then(Then(Then(
        [ok |-> TRUE, val |-> ZeroSingleResponse, rest |-> body],
        FieldCertID), FieldGood), FieldRevoked), FieldUnknown),
        FieldThisUpdate), FieldNextUpdate), FieldSingleExtensions)

\* SEQUENCE OF singleResponse, content octets
RECURSIVE ParseResponses(_)
ParseResponses(bytes) ==
    Eval(bytes, LAMBDA b :
        IF b = << >> THEN [ok |-> TRUE, val |-> << >>, rest |-> << >>]
        ELSE Eval(ParseSequence(b), LAMBDA t :
            IF ~t.ok THEN Failed(<< >>)
            ELSE Eval(ParseSingleResponse(t.val), LAMBDA e :
                IF ~e.ok THEN Failed(<< >>)
                ELSE Eval(ParseResponses(t.rest), LAMBDA r :
                    IF r.ok THEN [r EXCEPT !.val = <<e.val>> \o r.val]
                    ELSE Failed(<< >>)))))

AsnError(val) == [err |-> "asn1: structure error", val |-> val, rest |-> << >>]

\* asn1.Unmarshal(b, &basic): the value and the octets after it
AsnUnmarshalBasic(bytes) ==
    Eval(ParseSequence(bytes), LAMBDA t :
        IF ~t.ok THEN AsnError(<< >>)
        ELSE Eval(ParseSequence(t.val), LAMBDA d :
            IF ~d.ok THEN AsnError(<< >>)
            ELSE Eval(ParseSequence(d.val), LAMBDA q :
                IF ~q.ok THEN AsnError(<< >>)
                ELSE Eval(ParseResponses(q.val), LAMBDA l :
                    IF l.ok THEN [err |-> "", val |-> l.val, rest |-> t.rest]
                    ELSE AsnError(<< >>)))))

ZeroOcspResponse == [ResponseStatus |-> 0, ResponseBytes |-> ZeroResponseBytes]

\* OcspResponse.ResponseStatus
FieldResponseStatus(s) ==
    Eval(ParseOctet(s.rest, 10), LAMBDA st :
        [ok |-> st.ok, val |-> [s.val EXCEPT !.ResponseStatus = st.val], rest |-> st.rest])

\* responseBytes.ResponseType
FieldResponseType(s) ==
    Eval(ParseOctet(s.rest, 6), LAMBDA ty :
        [ok |-> ty.ok, val |-> [s.val EXCEPT !.ResponseType = ty.val], rest |-> ty.rest])

\* responseBytes.Response
FieldResponse(s) ==
    Eval(ParseTL(s.rest), LAMBDA pl :
        [ok |-> pl.ok /\ pl.tag = 4, val |-> [s.val EXCEPT !.Response = pl.body],
         rest |-> pl.rest])

\* OcspResponse.ResponseBytes `asn1:"explicit,tag:0,optional"`
FieldResponseBytes(s) ==
    Eval(ParseOptional(s.rest, 160), LAMBDA o :
        IF ~o.ok \/ ~o.present THEN [ok |-> o.ok, val |-> s.val, rest |-> o.rest]
        ELSE Eval(ParseSequence(o.body), LAMBDA q :
            IF ~q.ok THEN Failed(s.val)
            ELSE Eval(Then(Then([ok |-> TRUE, val |-> ZeroResponseBytes, rest |-> q.val],
                                FieldResponseType), FieldResponse),
                      LAMBDA rb :
                        [ok |-> rb.ok, val |-> [s.val EXCEPT !.ResponseBytes = rb.val],
                         rest |-> o.rest])))

\* asn1.Unmarshal(b, &ocspResponse)
AsnUnmarshalResponse(bytes) ==
    Eval(ParseSequence(bytes), LAMBDA t :
        IF ~t.ok THEN AsnError(ZeroOcspResponse)
        ELSE Eval(Then(Then([ok |-> TRUE, val |-> ZeroOcspResponse, rest |-> t.val],
                            FieldResponseStatus), FieldResponseBytes),
                  LAMBDA r :
                    IF r.ok THEN [err |-> "", val |-> r.val, rest |-> t.rest]
                    ELSE AsnError(ZeroOcspResponse)))

\* SEQUENCE OF request, content octets
RECURSIVE ParseRequestList(_)
ParseRequestList(bytes) ==
    Eval(bytes, LAMBDA b :
        IF b = << >> THEN [ok |-> TRUE, val |-> << >>, rest |-> << >>]
        ELSE Eval(ParseSequence(b), LAMBDA t :
            IF ~t.ok THEN Failed(<< >>)
            ELSE Eval(ParseCertID(t.val), LAMBDA c :
                IF ~c.ok THEN Failed(<< >>)
                ELSE Eval(ParseRequestList(t.rest), LAMBDA r :
                    IF r.ok THEN [r EXCEPT !.val = <<c.val>> \o r.val]
                    ELSE Failed(<< >>)))))

ZeroOcspRequest == [RequestList |-> << >>, ExtensionList |-> << >>]

\* tbsRequest.RequestList
FieldRequestList(s) ==
    Eval(ParseSequence(s.rest), LAMBDA q :
        IF ~q.ok THEN Failed(s.val)
        ELSE Eval(ParseRequestList(q.val), LAMBDA l :
            [ok |-> l.ok, val |-> [s.val EXCEPT !.RequestList = l.val], rest |-> q.rest]))

\* tbsRequest.ExtensionList `asn1:"explicit,tag:2,optional"`
FieldExtensionList(s) ==
    Eval(ParseOptionalExtensions(s.rest, 162), LAMBDA x :
        [ok |-> x.ok, val |-> [s.val EXCEPT !.ExtensionList = x.val], rest |-> x.rest])

\* asn1.Unmarshal(request, &req)
AsnUnmarshalRequest(bytes) ==
    Eval(ParseSequence(bytes), LAMBDA t :
        IF ~t.ok THEN AsnError(ZeroOcspRequest)
        ELSE Eval(ParseSequence(t.val), LAMBDA tbs :
            IF ~tbs.ok THEN AsnError(ZeroOcspRequest)
            ELSE Eval(Then(Then([ok |-> TRUE, val |-> ZeroOcspRequest, rest |-> tbs.val],
                                FieldRequestList), FieldExtensionList),
                      LAMBDA r :
                        IF r.ok THEN [err |-> "", val |-> r.val, rest |-> t.rest]
                        ELSE AsnError(ZeroOcspRequest))))

\* ====================================================== package functions
\* the value a function returns: the error ("" is nil), the encoded bytes,
\* and the decoded value (nil is TRUE when the returned pointer is nil)
Returned(err, bytes, nil, value) ==
    [err |-> err, bytes |-> bytes, nil |-> nil, value |-> value]

NoReturn == Returned("", << >>, TRUE, << >>)

\* func UnmarshalRequest(request []byte) (*OcspRequest, error)
UnmarshalRequest(request) ==
    Eval(AsnUnmarshalRequest(request), LAMBDA u :
        IF u.err # "" THEN Returned(u.err, << >>, TRUE, << >>)
        ELSE IF Len(u.rest) > 0
             THEN Returned("trailing data in OCSP request", << >>, TRUE, << >>)
        ELSE Returned("", << >>, FALSE, u.val))

\* func MarshalRequest(ocspRequest *OcspRequest) ([]byte, error)
MarshalRequest(ocspRequest) ==
    Eval(AsnMarshalRequest(ocspRequest), LAMBDA m :
        Returned(m.err, m.bytes, TRUE, << >>))

\* func (r *OcspRequest) Nonce() []byte; found is FALSE for the nil result
RECURSIVE FirstNonce(_)
FirstNonce(extList) ==
    IF extList = << >> THEN [found |-> FALSE, value |-> << >>]
    ELSE IF Head(extList).Id = OidOcspNonce
         THEN [found |-> TRUE, value |-> Head(extList).Value]
    ELSE FirstNonce(Tail(extList))

Nonce(r) == FirstNonce(r.ExtensionList)

\* func UnmarshalResponse(response []byte) (*OcspResponse, error)
UnmarshalResponse(response) ==
    Eval(AsnUnmarshalResponse(response), LAMBDA u :
        IF u.err # "" THEN Returned(u.err, << >>, TRUE, << >>)
        ELSE IF Len(u.rest) > 0
             THEN Returned("trailing data in OCSP response", << >>, TRUE, << >>)
        ELSE Returned("", << >>, FALSE, u.val))

\* mutant: the check of the bytes left after the value is missing
UnmarshalBasicResponse_NoTrailingCheck(basicResponse) ==
    Eval(AsnUnmarshalBasic(basicResponse), LAMBDA u :
        IF u.err # "" THEN Returned(u.err, << >>, TRUE, << >>)
        ELSE Returned("", << >>, FALSE, u.val))

\* func UnmarshalBasicResponse(basicResponse []byte) (*BasicResponse, error)
UnmarshalBasicResponse(basicResponse) ==
    Eval(AsnUnmarshalBasic(basicResponse), LAMBDA u :
        IF u.err # "" THEN Returned(u.err, << >>, TRUE, << >>)
        ELSE IF Len(u.rest) > 0
             THEN Returned("trailing data in OCSP basic response", << >>, TRUE, << >>)
        ELSE Returned("", << >>, FALSE, u.val))

\* func UnmarshalResponseToBasic(response []byte) (*BasicResponse, error)
UnmarshalResponseToBasic(response) ==
    Eval(AsnUnmarshalResponse(response), LAMBDA u :
        IF u.err # "" THEN Returned(u.err, << >>, TRUE, << >>)
        ELSE IF Len(u.rest) > 0
             THEN Returned("trailing data in OCSP response", << >>, TRUE, << >>)
        ELSE Eval(UnmarshalBasicResponse(u.val.ResponseBytes.Response), LAMBDA basic :
            IF basic.err # "" THEN Returned(basic.err, << >>, TRUE, << >>)
            ELSE IF Len(u.rest) > 0
                 THEN Returned("trailing data in OCSP basic response", << >>, TRUE, << >>)
            ELSE basic))

\* func MarshalResponse(response *OcspResponse) ([]byte, error)
MarshalResponse(response) ==
    Eval(AsnMarshalResponse(response), LAMBDA r :
        IF r.err # "" THEN Returned(r.err, << >>, TRUE, << >>)
        ELSE Returned(r.err, r.bytes, TRUE, << >>))

\* a fresh singleResponse with the four copied fields of sr
CopiedFrame(sr) ==
    [ZeroSingleResponse EXCEPT
        !.CertID = sr.CertID, !.ThisUpdate = sr.ThisUpdate,
        !.NextUpdate = sr.NextUpdate,
        !.SingleExtensions = sr.SingleExtensions]

\* mutant: the first branch forgets s.Good = true
NormalizeEntry_ForgetsGood(sr) ==
    IF sr.Good = TRUE /\ sr.Unknown = TRUE
    THEN CopiedFrame(sr)
    ELSE IF ~IsEmpty(sr.Revoked) /\ sr.Unknown = TRUE
    THEN [CopiedFrame(sr) EXCEPT !.Revoked = sr.Revoked]
    ELSE IF sr.Good = FALSE /\ IsEmpty(sr.Revoked)
    THEN [CopiedFrame(sr) EXCEPT !.Unknown = TRUE]
    ELSE sr

\* mutant: the revoked-but-unknown branch is tested before the
\* good-but-unknown branch
NormalizeEntry_RevokedFirst(sr) ==
    IF ~IsEmpty(sr.Revoked) /\ sr.Unknown = TRUE
    THEN [CopiedFrame(sr) EXCEPT !.Revoked = sr.Revoked]
    ELSE IF sr.Good = TRUE /\ sr.Unknown = TRUE
    THEN [CopiedFrame(sr) EXCEPT !.Good = TRUE]
    ELSE IF sr.Good = FALSE /\ IsEmpty(sr.Revoked)
    THEN [CopiedFrame(sr) EXCEPT !.Unknown = TRUE]
    ELSE sr

\* mutant: the set-unknown branch forgets s.NextUpdate = sr.NextUpdate
NormalizeEntry_DropsNextUpdate(sr) ==
    IF sr.Good = TRUE /\ sr.Unknown = TRUE
    THEN [CopiedFrame(sr) EXCEPT !.Good = TRUE]
    ELSE IF ~IsEmpty(sr.Revoked) /\ sr.Unknown = TRUE
    THEN [CopiedFrame(sr) EXCEPT !.Revoked = sr.Revoked]
    ELSE IF sr.Good = FALSE /\ IsEmpty(sr.Revoked)
    THEN [CopiedFrame(sr) EXCEPT !.Unknown = TRUE, !.NextUpdate = ZeroTime]
    ELSE sr

\* the loop body of MarshalBasicResponse on one entry sr: the entry stored
\* back at its index
NormalizeEntry(sr) ==
    IF sr.Good = TRUE /\ sr.Unknown = TRUE
    THEN [ZeroSingleResponse EXCEPT
            !.CertID = sr.CertID, !.ThisUpdate = sr.ThisUpdate,
            !.NextUpdate = sr.NextUpdate,
            !.SingleExtensions = sr.SingleExtensions,
            !.Good = TRUE]
    ELSE IF ~IsEmpty(sr.Revoked) /\ sr.Unknown = TRUE
    THEN [ZeroSingleResponse EXCEPT
            !.CertID = sr.CertID, !.ThisUpdate = sr.ThisUpdate,
            !.NextUpdate = sr.NextUpdate,
            !.SingleExtensions = sr.SingleExtensions,
            !.Revoked = sr.Revoked]
    ELSE IF sr.Good = FALSE /\ IsEmpty(sr.Revoked)
    THEN [ZeroSingleResponse EXCEPT
            !.CertID = sr.CertID, !.ThisUpdate = sr.ThisUpdate,
            !.NextUpdate = sr.NextUpdate,
            !.SingleExtensions = sr.SingleExtensions,
            !.Unknown = TRUE]
    ELSE sr

\* the loop of MarshalBasicResponse over Responses
NormalizeResponses(rs) == [i \in 1..Len(rs) |-> NormalizeEntry(rs[i])]

\* func MarshalBasicResponse(basicResponse *BasicResponse) ([]byte, error):
\* the Responses it leaves in *basicResponse, and what it returns
MarshalBasicResponse(rs) ==
    Eval(NormalizeResponses(rs), LAMBDA normalized :
        Eval(AsnMarshalBasic(normalized), LAMBDA m :
            [Responses |-> normalized, ret |-> Returned(m.err, m.bytes, TRUE, << >>)]))

\* the first loop of MarshalResponseFromBasic: sr is a copy of the entry,
\* so setting sr.Unknown changes nothing in Responses
FromBasicLoop(rs) == rs

\* mutant: the response is normalized and encoded from a copy, the caller's
\* value is left as it was
MarshalResponseFromBasic_OnCopy(rs) ==
    Eval(MarshalBasicResponse(FromBasicLoop(rs)), LAMBDA b :
        IF b.ret.err # ""
        THEN [Responses |-> rs, ret |-> Returned(b.ret.err, << >>, TRUE, << >>)]
        ELSE Eval(AsnMarshalResponse(
                    [ResponseStatus |-> 0,
                     ResponseBytes |-> [ResponseType |-> OidOcspBasicResponse,
                                        Response |-> b.ret.bytes]]),
                  LAMBDA r :
                    [Responses |-> rs, ret |-> Returned(r.err, r.bytes, TRUE, << >>)]))

\* func MarshalResponseFromBasic(basicResponse *BasicResponse) ([]byte, error)
MarshalResponseFromBasic(rs) ==
    Eval(MarshalBasicResponse(FromBasicLoop(rs)), LAMBDA b :
        IF b.ret.err # ""
        THEN [Responses |-> b.Responses, ret |-> Returned(b.ret.err, << >>, TRUE, << >>)]
        ELSE Eval(AsnMarshalResponse(
                    [ResponseStatus |-> 0,
                     ResponseBytes |-> [ResponseType |-> OidOcspBasicResponse,
                                        Response |-> b.ret.bytes]]),
                  LAMBDA r :
                    IF r.err # ""
                    THEN [Responses |-> b.Responses,
                          ret |-> Returned(r.err, << >>, TRUE, << >>)]
                    ELSE [Responses |-> b.Responses,
                          ret |-> Returned(r.err, r.bytes, TRUE, << >>)]))

\* the range loop of SetNonce: extension is a copy of the list element, so
\* the assignment to extension.Value leaves extList as it is; the result is
\* the value of done after the loop
RECURSIVE SetNonceLoop(_, _)
SetNonceLoop(extList, done) ==
    IF extList = << >> THEN done
    ELSE IF Head(extList).Id = OidOcspNonce
         THEN SetNonceLoop(Tail(extList), TRUE)
    ELSE SetNonceLoop(Tail(extList), done)

\* mutant: the nonce extension is appended whether or not one is present
SetNonceExtList_AlwaysAppend(extList, nonce) ==
    Append(extList, NonceExt(nonce))

\* the body of SetNonce on extList: the list stored back in SingleExtensions
SetNonceExtList(extList, nonce) ==
    IF Len(extList) = 0
    THEN Append(extList, NonceExt(nonce))
    ELSE IF ~SetNonceLoop(extList, FALSE)
         THEN Append(extList, NonceExt(nonce))
    ELSE extList

\* func (basicResponse *BasicResponse) SetNonce(index int, nonce []byte);
\* index counts from 1 here
SetNonce(rs, index, nonce) ==
    [rs EXCEPT ![index].SingleExtensions =
                    SetNonceExtList(rs[index].SingleExtensions, nonce)]

\* func (basicResponse *BasicResponse) GetNonce(index int) []byte
GetNonce(rs, index) ==
    LET extList == rs[index].SingleExtensions IN
    IF Len(extList) = 0 THEN [found |-> FALSE, value |-> << >>]
    ELSE FirstNonce(extList)

\* mutant: Unknown is not reset
ClearStatus_KeepsUnknown(rs, index) ==
    [rs EXCEPT ![index].Good = FALSE,
               ![index].Revoked = ZeroRevokedInfo]

\* func (basicResponse *BasicResponse) ClearStatus(index int)
ClearStatus(rs, index) ==
    [rs EXCEPT ![index].Good = FALSE,
               ![index].Unknown = FALSE,
               ![index].Revoked = ZeroRevokedInfo]

\* ================================================================ state
VARIABLES
    Responses,  \* basicResponse.TBSResponseData.Responses of the caller's value
    lastOp,     \* the function called last
    prevOp,     \* the function called before it
    pre,        \* Responses before the last call that took the BasicResponse
    arg,        \* the arguments of the last call and what its bytes hold
    ret         \* what the last call returned

vars == <<Responses, lastOp, prevOp, pre, arg, ret>>

\* index and nonce: the arguments of SetNonce and ClearStatus; request: the
\* argument of MarshalRequest; kind: what the bytes last produced or read
\* encode; inner: the bytes put after the BasicResponse inside
\* responseBytes.Response; suffix: the bytes put after the top-level value
\* handed to a decoder
Args(index, nonce, request, kind, inner, suffix) ==
    [index |-> index, nonce |-> nonce, request |-> request,
     kind |-> kind, inner |-> inner, suffix |-> suffix]

NoArgs == Args(0, << >>, ZeroOcspRequest, "none", << >>, << >>)

Init ==
    /\ Responses \in ResponsesOver(Entries)
    /\ lastOp = "new"
    /\ prevOp = "new"
    /\ pre = Responses
    /\ arg = NoArgs
    /\ ret = NoReturn

InitCodec ==
    /\ Responses \in ResponsesOver(CodecEntries)
    /\ lastOp = "new"
    /\ prevOp = "new"
    /\ pre = Responses
    /\ arg = NoArgs
    /\ ret = NoReturn

\* ---------------------------------------------------------------- actions
SetNonceCall ==
    \E index \in 1..Len(Responses), nonce \in NonceValues :
        /\ Responses' = SetNonce(Responses, index, nonce)
        /\ lastOp' = "SetNonce"
        /\ prevOp' = lastOp
        /\ pre' = Responses
        /\ arg' = [NoArgs EXCEPT !.index = index, !.nonce = nonce]
        /\ ret' = NoReturn

ClearStatusCall ==
    \E index \in 1..Len(Responses) :
        /\ Responses' = ClearStatus(Responses, index)
        /\ lastOp' = "ClearStatus"
        /\ prevOp' = lastOp
        /\ pre' = Responses
        /\ arg' = [NoArgs EXCEPT !.index = index]
        /\ ret' = NoReturn

MarshalBasicResponseCall ==
    \E m \in {MarshalBasicResponse(Responses)} :
        /\ Responses' = m.Responses
        /\ lastOp' = "MarshalBasicResponse"
        /\ prevOp' = lastOp
        /\ pre' = Responses
        /\ arg' = [NoArgs EXCEPT !.kind = "basic"]
        /\ ret' = m.ret

MarshalResponseFromBasicCall ==
    \E m \in {MarshalResponseFromBasic(Responses)} :
        /\ Responses' = m.Responses
        /\ lastOp' = "MarshalResponseFromBasic"
        /\ prevOp' = lastOp
        /\ pre' = Responses
        /\ arg' = [NoArgs EXCEPT !.kind = "response"]
        /\ ret' = m.ret

\* the caller wraps the bytes MarshalBasicResponse just returned, followed by
\* inner, in an OcspResponse and encodes it
MarshalResponseWrapCall ==
    /\ lastOp = "MarshalBasicResponse"
    /\ ret.err = ""
    /\ \E inner \in Suffixes :
        /\ ret' = MarshalResponse(
                    [ResponseStatus |-> 0,
                     ResponseBytes |-> [ResponseType |-> OidOcspBasicResponse,
                                        Response |-> ret.bytes \o inner]])
        /\ arg' = [NoArgs EXCEPT !.kind = "response", !.inner = inner]
    /\ lastOp' = "MarshalResponse"
    /\ prevOp' = lastOp
    /\ UNCHANGED <<Responses, pre>>

\* a response that carries a status other than successful and no payload;
\* it does not involve the BasicResponse, so it is taken from the start only
MarshalResponseStatusCall ==
    /\ lastOp = "new"
    /\ \E status \in {1, 2, 3, 5, 6} :
        ret' = MarshalResponse([ResponseStatus |-> status,
                                ResponseBytes |-> ZeroResponseBytes])
    /\ arg' = [NoArgs EXCEPT !.kind = "status"]
    /\ lastOp' = "MarshalResponse"
    /\ prevOp' = lastOp
    /\ UNCHANGED <<Responses, pre>>

\* a request does not involve the BasicResponse: taken from the start only
MarshalRequestCall ==
    /\ lastOp = "new"
    /\ \E req \in Requests :
        /\ ret' = MarshalRequest(req)
        /\ arg' = [NoArgs EXCEPT !.kind = "request", !.request = req]
    /\ lastOp' = "MarshalRequest"
    /\ prevOp' = lastOp
    /\ UNCHANGED <<Responses, pre>>

UnmarshalBasicResponseCall ==
    /\ lastOp = "MarshalBasicResponse"
    /\ ret.err = ""
    /\ \E suffix \in Suffixes :
        /\ ret' = UnmarshalBasicResponse(ret.bytes \o suffix)
        /\ arg' = [arg EXCEPT !.suffix = suffix]
    /\ lastOp' = "UnmarshalBasicResponse"
    /\ prevOp' = lastOp
    /\ UNCHANGED <<Responses, pre>>

UnmarshalResponseCall ==
    /\ lastOp \in {"MarshalResponseFromBasic", "MarshalResponse"}
    /\ ret.err = ""
    /\ \E suffix \in Suffixes :
        /\ ret' = UnmarshalResponse(ret.bytes \o suffix)
        /\ arg' = [arg EXCEPT !.suffix = suffix]
    /\ lastOp' = "UnmarshalResponse"
    /\ prevOp' = lastOp
    /\ UNCHANGED <<Responses, pre>>

UnmarshalResponseToBasicCall ==
    /\ lastOp \in {"MarshalResponseFromBasic", "MarshalResponse"}
    /\ ret.err = ""
    /\ \E suffix \in Suffixes :
        /\ ret' = UnmarshalResponseToBasic(ret.bytes \o suffix)
        /\ arg' = [arg EXCEPT !.suffix = suffix]
    /\ lastOp' = "UnmarshalResponseToBasic"
    /\ prevOp' = lastOp
    /\ UNCHANGED <<Responses, pre>>

UnmarshalRequestCall ==
    /\ lastOp = "MarshalRequest"
    /\ ret.err = ""
    /\ \E suffix \in Suffixes :
        /\ ret' = UnmarshalRequest(ret.bytes \o suffix)
        /\ arg' = [arg EXCEPT !.suffix = suffix]
    /\ lastOp' = "UnmarshalRequest"
    /\ prevOp' = lastOp
    /\ UNCHANGED <<Responses, pre>>

\* the producer: builds and mutates a BasicResponse and encodes it
Next ==
    \/ SetNonceCall
    \/ ClearStatusCall
    \/ MarshalBasicResponseCall
    \/ MarshalResponseFromBasicCall

Spec == Init /\ [][Next]_vars

\* the codec: values are encoded and the bytes decoded again
NextCodec ==
    \/ MarshalBasicResponseCall
    \/ MarshalResponseFromBasicCall
    \/ MarshalResponseWrapCall
    \/ MarshalResponseStatusCall
    \/ MarshalRequestCall
    \/ UnmarshalBasicResponseCall
    \/ UnmarshalResponseCall
    \/ UnmarshalResponseToBasicCall
    \/ UnmarshalRequestCall

SpecCodec == InitCodec /\ [][NextCodec]_vars

\* =============================================================== claims
Encoders == {"MarshalBasicResponse", "MarshalResponseFromBasic"}

\* how many of the three status alternatives an entry has set
StatusCount(sr) ==
    (IF sr.Good THEN 1 ELSE 0)
    + (IF ~IsEmpty(sr.Revoked) THEN 1 ELSE 0)
    + (IF sr.Unknown THEN 1 ELSE 0)

UnknownOnly(sr) == sr.Unknown /\ ~sr.Good /\ IsEmpty(sr.Revoked)

GoodOnly(sr) == sr.Good /\ ~sr.Unknown /\ IsEmpty(sr.Revoked)

NonceCount(extList) ==
    Cardinality({i \in 1..Len(extList) : extList[i].Id = OidOcspNonce})

\* the fields of an entry that are not status slots
SameFrame(a, b) ==
    /\ a.CertID = b.CertID
    /\ a.ThisUpdate = b.ThisUpdate
    /\ a.NextUpdate = b.NextUpdate
    /\ a.SingleExtensions = b.SingleExtensions

WholeSeconds(t) == [sec |-> t.sec, nsec |-> 0]

\* an entry with its timestamps cut to whole seconds
TruncatedEntry(sr) ==
    [sr EXCEPT !.ThisUpdate = WholeSeconds(sr.ThisUpdate),
               !.NextUpdate = WholeSeconds(sr.NextUpdate),
               !.Revoked.RevocationTime = WholeSeconds(sr.Revoked.RevocationTime)]

TruncatedResponses(rs) == [i \in 1..Len(rs) |-> TruncatedEntry(rs[i])]

\* C1: after SetNonce(r, i, v), GetNonce(r, i) returns v, also when the
\* entry already held a nonce extension with another value.
C1_SetThenGet ==
    lastOp = "SetNonce" =>
        GetNonce(Responses, arg.index) = [found |-> TRUE, value |-> arg.nonce]

\* C2: SetNonce never duplicates the nonce extension: with a nonce present
\* the extension list keeps its length, without one it grows by exactly one
\* entry, and a list with at most one nonce never holds more than one.
C2_NoDuplicateNonce ==
    /\ \A i \in 1..Len(Responses) : NonceCount(Responses[i].SingleExtensions) <= 1
    /\ lastOp = "SetNonce" =>
        LET old == pre[arg.index].SingleExtensions
            new == Responses[arg.index].SingleExtensions
        IN  /\ NonceCount(old) >= 1 => Len(new) = Len(old)
            /\ NonceCount(old) = 0 =>
                    /\ Len(new) = Len(old) + 1
                    /\ NonceCount(new) = 1
                    /\ SubSeq(new, 1, Len(old)) = old

C2_Witness ==
    /\ lastOp = "SetNonce"
    /\ prevOp = "SetNonce"
    /\ NonceCount(pre[arg.index].SingleExtensions) = 1
    /\ GetNonce(pre, arg.index).value # arg.nonce
    /\ Len(Responses[arg.index].SingleExtensions) = 2
    /\ Len(pre[arg.index].SingleExtensions) = 2

\* C3: after the normalization run by an encode call every entry has
\* exactly one of good, non-empty revoked-info, unknown set.
C3_ExactlyOneStatus ==
    lastOp \in Encoders =>
        \A i \in 1..Len(Responses) : StatusCount(Responses[i]) = 1

\* C4: the normalization is idempotent: an encode call on the value an
\* encode call has left behind leaves it exactly as it is.
C4_Idempotent ==
    lastOp \in Encoders =>
        /\ MarshalBasicResponse(Responses).Responses = Responses
        /\ \A i \in 1..Len(pre) :
              NormalizeEntry(NormalizeEntry(pre[i])) = NormalizeEntry(pre[i])

C4_Witness ==
    /\ lastOp = "MarshalBasicResponse"
    /\ prevOp = "MarshalBasicResponse"
    /\ pre = Responses
    /\ Len(Responses) = MaxResponses
    /\ \E i \in 1..Len(Responses) : UnknownOnly(Responses[i])
    /\ \E i \in 1..Len(Responses) : GoodOnly(Responses[i])

\* C5: the normalization computes the prioritized rule table: (1) good and
\* unknown give good only; (2) else non-empty revoked-info and unknown give
\* revoked only with the revoked-info intact; (3) else neither good nor
\* revoked-info gives unknown only; (4) otherwise the entry is unchanged.
C5_RuleTable ==
    lastOp \in Encoders =>
        /\ Len(Responses) = Len(pre)
        /\ \A i \in 1..Len(pre) :
            LET s == pre[i]
                n == Responses[i]
                rule1 == s.Good /\ s.Unknown
                rule2 == ~rule1 /\ ~IsEmpty(s.Revoked) /\ s.Unknown
                rule3 == ~rule1 /\ ~rule2 /\ ~s.Good /\ IsEmpty(s.Revoked)
            IN  /\ rule1 => GoodOnly(n)
                /\ rule2 => ~n.Unknown /\ ~n.Good /\ n.Revoked = s.Revoked
                /\ rule3 => UnknownOnly(n)
                /\ ~(rule1 \/ rule2 \/ rule3) => n = s

C5_Witness ==
    /\ lastOp = "MarshalBasicResponse"
    /\ \E i \in 1..Len(pre) :
        /\ ~pre[i].Good /\ pre[i].Unknown /\ ~IsEmpty(pre[i].Revoked)
        /\ pre[i].Revoked.RevocationReason = 1
        /\ Responses[i].Revoked = pre[i].Revoked
        /\ ~Responses[i].Unknown

\* C6: ClearStatus(r, i) leaves entry i with good, unknown and revoked-info
\* unset and everything else as it was, and an encode call made right after
\* it leaves entry i with unknown only.
C6_ClearThenNormalize ==
    [][/\ lastOp' = "ClearStatus" =>
            /\ Len(Responses') = Len(Responses)
            /\ \A j \in 1..Len(Responses) :
                IF j = arg'.index
                THEN /\ ~Responses'[j].Good
                     /\ ~Responses'[j].Unknown
                     /\ Responses'[j].Revoked = ZeroRevokedInfo
                     /\ SameFrame(Responses'[j], Responses[j])
                ELSE Responses'[j] = Responses[j]
       /\ (lastOp = "ClearStatus" /\ lastOp' \in Encoders) =>
            /\ UnknownOnly(Responses'[arg.index])
            /\ SameFrame(Responses'[arg.index], Responses[arg.index])
      ]_vars

C6_Witness ==
    /\ prevOp = "ClearStatus"
    /\ lastOp \in Encoders
    /\ ret.err = ""
    /\ Len(Responses) = MaxResponses
    /\ \E i \in 1..Len(Responses) :
        /\ StatusCount(pre[i]) = 0
        /\ pre[i].Revoked = ZeroRevokedInfo
        /\ UnknownOnly(Responses[i])
        /\ pre[i].SingleExtensions # << >>

\* C7: a successful MarshalResponseFromBasic leaves in the caller's value
\* the normalization of what it held (what MarshalBasicResponse alone
\* leaves), and returns an envelope with status successful (0) and the
\* basic-response type whose payload is the encoding of that normalized
\* value.
C7_FromBasicInPlace ==
    (lastOp = "MarshalResponseFromBasic" /\ ret.err = "") =>
        /\ Responses = MarshalBasicResponse(pre).Responses
        /\ \A env \in {UnmarshalResponse(ret.bytes)} :
            /\ env.err = ""
            /\ env.value.ResponseStatus = 0
            /\ env.value.ResponseBytes.ResponseType = OidOcspBasicResponse
            /\ \A inner \in {UnmarshalBasicResponse(env.value.ResponseBytes.Response)} :
                /\ inner.err = ""
                /\ inner.value = Responses

C7_Witness ==
    /\ lastOp = "MarshalResponseFromBasic"
    /\ ret.err = ""
    /\ Len(Responses) = MaxResponses
    /\ \E i \in 1..Len(pre) : pre[i].Good /\ pre[i].Unknown /\ GoodOnly(Responses[i])

\* the decode calls whose input is exactly what an encode call returned
DecodedBasic ==
    /\ lastOp \in {"UnmarshalBasicResponse", "UnmarshalResponseToBasic"}
    /\ prevOp \in Encoders
    /\ arg.suffix = << >>

\* C8 as stated: decoding what encode returned gives the value as it was
\* passed to encode.
C8_RoundTripAsPassed ==
    DecodedBasic => (ret.err = "" /\ ret.value = pre)

\* C8 amended: decoding what encode returned gives the value as encode left
\* it in place (status normalized), with every timestamp cut to whole
\* seconds; an entry that was good only comes back good only with the same
\* CertID and the same thisUpdate second.
C8_RoundTripNormalized ==
    DecodedBasic =>
        /\ ret.err = ""
        /\ ~ret.nil
        /\ Responses = NormalizeResponses(pre)
        /\ ret.value = TruncatedResponses(Responses)
        /\ \A i \in 1..Len(pre) :
            GoodOnly(pre[i]) =>
                /\ GoodOnly(ret.value[i])
                /\ ret.value[i].CertID = pre[i].CertID
                /\ ret.value[i].ThisUpdate.sec = pre[i].ThisUpdate.sec

C8_Witness ==
    /\ DecodedBasic
    /\ lastOp = "UnmarshalResponseToBasic"
    /\ ret.err = ""
    /\ Len(ret.value) = MaxResponses
    /\ \E i \in 1..Len(pre) :
        /\ StatusCount(pre[i]) = 0
        /\ UnknownOnly(ret.value[i])
        /\ pre[i].ThisUpdate.nsec # 0
    /\ \E i \in 1..Len(pre) : GoodOnly(pre[i]) /\ GoodOnly(ret.value[i])

\* the bytes handed to the decoder are an encoding followed by more bytes,
\* after the top-level value or after the BasicResponse inside the payload
HasTrailing ==
    \/ arg.suffix # << >>
    \/ lastOp = "UnmarshalResponseToBasic" /\ arg.inner # << >>

\* C9: every decoder returns an error and no value when its input is a
\* valid encoding followed by a non-empty suffix, for UnmarshalResponseToBasic
\* at both layers, and decodes the same input without the suffix.
C9_TrailingData ==
    (/\ lastOp \in {"UnmarshalRequest", "UnmarshalResponse",
                    "UnmarshalBasicResponse", "UnmarshalResponseToBasic"}
     /\ ~(lastOp = "UnmarshalResponseToBasic" /\ arg.kind = "status")) =>
        IF HasTrailing
        THEN ret.err # "" /\ ret.nil
        ELSE ret.err = "" /\ ~ret.nil

C9_Witness ==
    /\ lastOp = "UnmarshalResponseToBasic"
    /\ arg.inner # << >>
    /\ arg.suffix = << >>
    /\ ret.err = "trailing data in OCSP basic response"
    /\ ret.nil

\* C10: an encode call keeps the number and order of the entries and, for
\* every entry, CertID, thisUpdate, nextUpdate and SingleExtensions.
C10_FramePreserved ==
    lastOp \in Encoders =>
        /\ Len(Responses) = Len(pre)
        /\ \A i \in 1..Len(pre) : SameFrame(Responses[i], pre[i])

C10_Witness ==
    /\ lastOp = "MarshalBasicResponse"
    /\ prevOp = "SetNonce"
    /\ Len(Responses) = MaxResponses
    /\ \E i \in 1..Len(pre) :
        /\ Responses[i] # pre[i]
        /\ UnknownOnly(Responses[i])
        /\ GetNonce(Responses, i).found
        /\ GetNonce(Responses, i).value \in NonceValues
        /\ Responses[i].NextUpdate # ZeroTime

====
